---- MODULE Spec2Model ----
(***************************************************************************)
(* JobSpy front ends: the Streamlit page (app.py) and the batch script     *)
(* (test.py).  Both call the external scrape_jobs once per job title, tag  *)
(* the rows with the title, concatenate the per-title tables and show or   *)
(* save the result.  scrape_jobs is opaque: per call it returns a table of *)
(* 0..MaxRows rows, raises, or (batch mode) never returns.                 *)
(*                                                                         *)
(* A table (DataFrame) is a sequence of rows.  A row keeps where it came   *)
(* from (origin: the position of the title in the title list, n: its       *)
(* position in the table the service returned) and its search_term column. *)
(* Row positions are 0-based where the code's are (selected_job_index).    *)
(***************************************************************************)
EXTENDS Integers, Sequences, FiniteSets, TLC

\* ---------------------------------------------------------------- bounds
MaxRows == 2      \* rows the service returns for one call

\* What the "Job Titles" text area can hold: nothing, blank lines only, one
\* padded title, two titles around blank lines, two titles the other way
\* round, the same title twice, a title repeated after another one.
JobTitleTexts ==
    { <<>>,
      <<" ", "\n", "\n", " ">>,
      <<" ", "A", " ">>,
      <<"A", "\n", " ", "\n", " ", "B">>,
      <<"B", "\n", "A">>,
      <<"A", "\n", "A", "\n">>,
      <<"A", "\n", "B", "\n", "A">> }
\* The site check boxes that can be ticked (two of site_options).
SiteOptions == {"indeed", "linkedin"}

Range(f) == {f[x] : x \in DOMAIN f}

\* ------------------------------------------------------- strings (app.py)
RECURSIVE lstrip(_)
lstrip(s) == IF s # <<>> /\ Head(s) \in {" ", "\n"} THEN lstrip(Tail(s)) ELSE s

RECURSIVE rstrip(_)
rstrip(s) ==
    IF s # <<>> /\ s[Len(s)] \in {" ", "\n"}
    THEN rstrip(SubSeq(s, 1, Len(s) - 1)) ELSE s

\* str.strip(): leading and trailing whitespace removed.
strip(s) == rstrip(lstrip(s))

\* str.split('\n'): always at least one piece.
RECURSIVE split(_, _)
split(s, cur) ==
    IF s = <<>> THEN <<cur>>
    ELSE IF Head(s) = "\n" THEN <<cur>> \o split(Tail(s), <<>>)
    ELSE split(Tail(s), Append(cur, Head(s)))

RECURSIVE StripNonBlank(_)
StripNonBlank(ls) ==
    IF ls = <<>> THEN <<>>
    ELSE IF strip(Head(ls)) # <<>>
         THEN <<strip(Head(ls))>> \o StripNonBlank(Tail(ls))
         ELSE StripNonBlank(Tail(ls))

\* app.py line 19: [title.strip() for title in s.split('\n') if title.strip()]
ParseTitles(text) == StripNonBlank(split(text, <<>>))

\* Every search term a text of JobTitleTexts gives.
Terms == UNION {Range(ParseTitles(text)) : text \in JobTitleTexts}

\* test.py line 32: ["PMO Lead", "PMO Analyst", "PMO"]
BatchTitles ==
    << <<"P", "M", "O", " ", "L", "e", "a", "d">>,
       <<"P", "M", "O", " ", "A", "n", "a", "l", "y", "s", "t">>,
       <<"P", "M", "O">> >>

Tasks == 1..Len(BatchTitles)

\* ------------------------------------------------------------- tables
\* The search_term of a row the service returned: the column is not there.
NoTerm == <<>>

\* The table scrape_jobs returns for call k when it finds len postings.
ServiceResult(k, len) ==
    [n \in 1..len |-> [origin |-> k, n |-> n, search_term |-> NoTerm]]

\* Mutant of Tag: the column assignment is lost.
TagLost(df, term) == df

\* jobs_df['search_term'] = search_term
Tag(df, term) == [x \in 1..Len(df) |-> [df[x] EXCEPT !.search_term = term]]

RECURSIVE Flatten(_)
Flatten(frames) ==
    IF frames = <<>> THEN <<>> ELSE Head(frames) \o Flatten(Tail(frames))

RECURSIVE FlattenReversed(_)
FlattenReversed(frames) ==
    IF frames = <<>> THEN <<>> ELSE FlattenReversed(Tail(frames)) \o Head(frames)

\* Mutant of PdConcat: the frames are joined last first.
PdConcatReversed(frames) == FlattenReversed(frames)

\* pd.concat(frames, ignore_index=True), for a non-empty list of frames.
PdConcat(frames) == Flatten(frames)

\* pd.concat raises ValueError("No objects to concatenate") on an empty list.
PdConcatRaises(frames) == frames = <<>>

RECURSIVE SumLen(_)
SumLen(frames) ==
    IF frames = <<>> THEN 0 ELSE Len(Head(frames)) + SumLen(Tail(frames))

\* ------------------------------------------------------------- state
VARIABLES
    \* app.py, kept across script runs (st.session_state)
    df_present,            \* 'jobs_df' in st.session_state
    session_jobs_df,       \* st.session_state.jobs_df
    selected,              \* st.session_state['selected_job_index_<term>']
    \* app.py, one script run
    ui_pc,                 \* "idle" (no script run), "loop" (lines 131-155),
                           \* "end" (the run is over), or "off" (batch)
    job_titles_str,        \* the text area when the button was pressed
    sites,                 \* the ticked sites when the button was pressed
    i,                     \* 1-based position of the loop in the title list
    run,                   \* this script run: none, blocked, searching,
                           \* done, aborted, view (a run without the button)
    warning,               \* the st.warning of this script run, or ""
    buttons,               \* the job buttons on the page: <<term, index>>
    panes,                 \* the detail panes on the page
    \* both programs
    job_titles_to_search,
    all_jobs,
    calls,                 \* scrape_jobs calls made in this run
    returned,              \* the table each call of this run returned
    error,                 \* the uncaught exception of this run, or ""
    \* test.py
    b_pc,                  \* the main thread, or "off" (interactive)
    submitted,             \* executor.submit calls made
    fut,                   \* the state of each task's future
    fate,                  \* what the service does for each task's call
    result,                \* future.result() of each finished task
    completion,            \* the tasks in the order they finished
    early,                 \* the tasks finished when as_completed started
    snap,                  \* as_completed: those of early not yet yielded
    waiter,                \* as_completed: waiter.finished_futures
    yielded,               \* the tasks as_completed has yielded
    collected,             \* the appends to all_jobs: which task, was it done
    combined_jobs_df,
    written                \* to_excel("jobs.xlsx") calls made

ui_vars == <<df_present, session_jobs_df, selected, ui_pc, job_titles_str, sites, i, run,
             warning, buttons, panes>>
shared_vars == <<job_titles_to_search, all_jobs, calls, returned, error>>
batch_vars == <<b_pc, submitted, fut, fate, result, completion, early, snap, waiter,
                yielded, collected, combined_jobs_df, written>>

vars == <<ui_vars, shared_vars, batch_vars>>

\* st.session_state has no such key / holds None (row positions are >= 0).
KeyAbsent == -2
NoneIndex == -1

\* No job button was pressed in this script run.
NoClick == <<>>

\* --------------------------------------------- app.py: the results view
RECURSIVE Unique(_, _)
Unique(df, seen) ==
    IF df = <<>> THEN <<>>
    ELSE IF Head(df).search_term \in seen THEN Unique(Tail(df), seen)
    ELSE <<Head(df).search_term>>
         \o Unique(Tail(df), seen \cup {Head(df).search_term})

\* all_jobs_df['search_term'].unique(): in order of first appearance.
SearchTerms(df) == Unique(df, {})

RECURSIVE RowsOf(_, _)
RowsOf(df, term) ==
    IF df = <<>> THEN <<>>
    ELSE IF Head(df).search_term = term
         THEN <<Head(df)>> \o RowsOf(Tail(df), term)
         ELSE RowsOf(Tail(df), term)

\* all_jobs_df[all_jobs_df['search_term'] == term], index reset.
TermDf(df, term) == RowsOf(df, term)

\* term_df.iloc[index] raises IndexError (index is never negative here).
IlocRaises(tdf, index) == index >= Len(tdf)

\* Lines 180-220 for the terms still to render.  sel is the session's
\* selected-index map, click the job button pressed in this run, acc what
\* was rendered so far.  An IndexError ends the script run.
RECURSIVE RenderTerms(_, _, _, _, _)
RenderTerms(terms, df, sel, click, acc) ==
    IF terms = <<>>
    THEN [selected |-> sel, buttons |-> acc.buttons, panes |-> acc.panes,
          error |-> ""]
    ELSE
      LET term == Head(terms)
          tdf  == TermDf(df, term)
          \* lines 189-190
          sel1 == IF sel[term] = KeyAbsent
                  THEN [sel EXCEPT ![term] = NoneIndex] ELSE sel
          \* lines 195-199: the button of each row; the pressed one is True
          btns == acc.buttons \cup {<<term, x>> : x \in 0..(Len(tdf) - 1)}
          sel2 == IF click # NoClick /\ click[1] = term /\ click[2] < Len(tdf)
                  THEN [sel1 EXCEPT ![term] = click[2]] ELSE sel1
          \* line 203
          selected_index == sel2[term]
      IN IF selected_index = NoneIndex
         THEN RenderTerms(Tail(terms), df, sel2, click,
                          [buttons |-> btns, panes |-> acc.panes])
         ELSE LET pn == Append(acc.panes, [term |-> term,
                                           index |-> selected_index,
                                           rows |-> Len(tdf)])
              IN IF IlocRaises(tdf, selected_index)
                 THEN [selected |-> sel2, buttons |-> btns, panes |-> pn,
                       error |-> "IndexError"]
                 ELSE RenderTerms(Tail(terms), df, sel2, click,
                                  [buttons |-> btns, panes |-> pn])

\* Lines 165-220: the results view of one script run.
Display(present, df, sel, click) ==
    IF present /\ df # <<>>
    THEN RenderTerms(SearchTerms(df), df, sel, click,
                     [buttons |-> {}, panes |-> <<>>])
    ELSE [selected |-> sel, buttons |-> {}, panes |-> <<>>, error |-> ""]

\* Mutant of GuardsPass: the check of the sites is missing.
GuardsPassTitlesOnly(titles, ss) == titles # <<>>

\* Lines 72-76: neither warning applies.
GuardsPass(titles, ss) == titles # <<>> /\ ss # {}

\* Mutant of ClearPrevious: the previous table is left in the session.
ClearPreviousKept(df) == df

\* Line 125: st.session_state.jobs_df = pd.DataFrame()
ClearPrevious(df) == <<>>

\* Mutant of Keep: a one-row table is taken for an empty one.
KeepSeveral(df) == Len(df) > 1

\* Line 153: not jobs_df.empty
Keep(df) == df # <<>>

\* ------------------------------------------------ app.py: script runs
\* Lines 71-76 and 125-129: the search button is pressed, with the text
\* area holding text and the sites ss ticked.
PressSearch(text, ss) ==
    /\ ui_pc = "idle"
    /\ job_titles_str' = text
    /\ job_titles_to_search' = ParseTitles(text)
    /\ sites' = ss
    /\ UNCHANGED <<calls, returned, all_jobs>>
    /\ IF GuardsPass(job_titles_to_search', ss)
       THEN /\ session_jobs_df' = ClearPrevious(session_jobs_df)
            /\ df_present' = TRUE
            /\ i' = 1
            /\ ui_pc' = "loop"
            /\ run' = "searching"
            /\ warning' = ""
            /\ error' = ""
            /\ buttons' = {}
            /\ panes' = <<>>
            /\ UNCHANGED selected
       ELSE LET d == Display(df_present, session_jobs_df, selected, NoClick)
            IN /\ warning' = IF job_titles_to_search' = <<>>
                             THEN "Please enter at least one job title."
                             ELSE "Please select at least one job site."
               /\ run' = "blocked"
               /\ selected' = d.selected
               /\ buttons' = d.buttons
               /\ panes' = d.panes
               /\ error' = d.error
               /\ ui_pc' = "end"
               /\ UNCHANGED <<session_jobs_df, df_present, i>>
    /\ UNCHANGED batch_vars

\* Lines 131-155, one pass of the loop: scrape_jobs returns len rows.
ScrapeReturns(len) ==
    /\ ui_pc = "loop"
    /\ i <= Len(job_titles_to_search)
    /\ LET search_term == job_titles_to_search[i]
           jobs_df == ServiceResult(i, len)
       IN /\ calls' = calls + 1
          /\ returned' = Append(returned, jobs_df)
          /\ all_jobs' = IF Keep(jobs_df)
                         THEN Append(all_jobs, Tag(jobs_df, search_term))
                         ELSE all_jobs
    /\ i' = i + 1
    /\ UNCHANGED <<df_present, session_jobs_df, selected, ui_pc, job_titles_str, sites, run,
                   warning, buttons, panes, job_titles_to_search, error>>
    /\ UNCHANGED batch_vars

\* Line 138 raises: nothing catches it, the script run ends there.
ScrapeRaises ==
    /\ ui_pc = "loop"
    /\ i <= Len(job_titles_to_search)
    /\ calls' = calls + 1
    /\ error' = "scrape_jobs"
    /\ run' = "aborted"
    /\ ui_pc' = "end"
    /\ UNCHANGED <<df_present, session_jobs_df, selected, job_titles_str, sites, i, warning,
                   buttons, panes, job_titles_to_search, all_jobs, returned>>
    /\ UNCHANGED batch_vars

\* Lines 157-220: after the loop.
Compile ==
    /\ ui_pc = "loop"
    /\ i > Len(job_titles_to_search)
    /\ session_jobs_df' = IF all_jobs # <<>> THEN PdConcat(all_jobs)
                          ELSE session_jobs_df
    /\ warning' = IF all_jobs # <<>> THEN ""
                  ELSE "No jobs found for the given criteria."
    /\ LET d == Display(df_present, session_jobs_df', selected, NoClick)
       IN /\ selected' = d.selected
          /\ buttons' = d.buttons
          /\ panes' = d.panes
          /\ error' = d.error
    /\ run' = "done"
    /\ ui_pc' = "end"
    /\ UNCHANGED <<df_present, job_titles_str, sites, i, job_titles_to_search, all_jobs,
                   calls, returned>>
    /\ UNCHANGED batch_vars

\* A script run without the search button: a job button was pressed
\* (lines 198-199), or another widget changed (click = NoClick).
View(click) ==
    /\ ui_pc = "idle"
    /\ click \in {NoClick} \cup buttons
    /\ LET d == Display(df_present, session_jobs_df, selected, click)
       IN /\ selected' = d.selected
          /\ buttons' = d.buttons
          /\ panes' = d.panes
          /\ error' = d.error
    /\ run' = "view"
    /\ ui_pc' = "end"
    /\ UNCHANGED <<df_present, session_jobs_df, job_titles_str, sites, i, warning>>
    /\ UNCHANGED <<job_titles_to_search, all_jobs, calls, returned>>
    /\ UNCHANGED batch_vars

\* The script run is over: its variables are gone; the session state and
\* the page stay.
EndRun ==
    /\ ui_pc = "end"
    /\ ui_pc' = "idle"
    /\ run' = "none"
    /\ job_titles_str' = <<>>
    /\ sites' = {}
    /\ i' = 1
    /\ warning' = ""
    /\ error' = ""
    /\ job_titles_to_search' = <<>>
    /\ all_jobs' = <<>>
    /\ calls' = 0
    /\ returned' = <<>>
    /\ UNCHANGED <<df_present, session_jobs_df, selected, buttons, panes>>
    /\ UNCHANGED batch_vars

\* ------------------------------------------------------------ test.py
Finished(t) == fut[t] \in {"returned", "raised"}

\* Mutant of ResultRaises: the exception of a task is swallowed.
ResultRaisesNever(t) == FALSE

\* Line 41: future.result() re-raises what the task raised.
ResultRaises(t) == fut[t] = "raised"

\* Mutant of Yieldable: as_completed hands out futures that still run.
YieldableAnyOrder == {t \in Tasks : fut[t] # "none" /\ t \notin yielded}

\* Line 40: the futures as_completed can yield next.  Those already finished
\* when it started come first, in the order of a set; the others in the
\* order they finish.
Yieldable ==
    IF snap # {} THEN snap
    ELSE IF waiter # <<>> THEN {Head(waiter)}
    ELSE {}

\* Mutant of AllYielded: the loop ends when nothing is ready.
AllYieldedNothingReady == snap = {} /\ waiter = <<>>

\* Line 40: as_completed is exhausted.
AllYielded == yielded = Tasks

\* Mutant of BatchKeep: only non-empty tables are collected, as in app.py.
BatchKeepNonEmpty(df) == df # <<>>

\* Line 41: every result is appended.
BatchKeep(df) == TRUE

\* Line 38, one executor.submit of the dict comprehension.
Submit ==
    /\ b_pc = "submit"
    /\ submitted < Len(job_titles_to_search)
    /\ submitted' = submitted + 1
    /\ fut' = [fut EXCEPT ![submitted + 1] = "pending"]
    /\ UNCHANGED <<b_pc, fate, result, completion, early, snap, waiter, collected,
                   yielded, combined_jobs_df, written>>
    /\ UNCHANGED shared_vars
    /\ UNCHANGED ui_vars

\* Line 40: the for loop starts as_completed, which notes the futures that
\* are finished and installs its waiter on the others.
AsCompleted ==
    /\ b_pc = "submit"
    /\ submitted = Len(job_titles_to_search)
    /\ early' = {t \in Tasks : Finished(t)}
    /\ snap' = early'
    /\ waiter' = <<>>
    /\ b_pc' = "collect"
    /\ UNCHANGED <<submitted, fut, fate, result, completion, collected,
                   yielded, combined_jobs_df, written>>
    /\ UNCHANGED shared_vars
    /\ UNCHANGED ui_vars

\* Lines 5-11: a worker thread takes the task and calls scrape_jobs.
TaskStart(t) ==
    /\ fut[t] = "pending"
    /\ fut' = [fut EXCEPT ![t] = "running"]
    /\ calls' = calls + 1
    /\ UNCHANGED <<b_pc, submitted, fate, result, completion, early, snap, waiter,
                   collected, yielded, combined_jobs_df, written>>
    /\ UNCHANGED <<job_titles_to_search, all_jobs, returned, error>>
    /\ UNCHANGED ui_vars

\* The future of t finishes: it is noted in completion order, and handed
\* to the waiter of a running as_completed.
Finish(t, how) ==
    /\ fut' = [fut EXCEPT ![t] = how]
    /\ completion' = Append(completion, t)
    /\ waiter' = IF b_pc = "collect" THEN Append(waiter, t) ELSE waiter

\* Lines 11-28: scrape_jobs returns len rows; search_for_title tags them
\* and returns the table.
TaskReturns(t, len) ==
    /\ fut[t] = "running"
    /\ fate[t] = "return"
    /\ LET search_term == job_titles_to_search[t]
           jobs_df == ServiceResult(t, len)
       IN /\ returned' = [returned EXCEPT ![t] = jobs_df]
          /\ result' = [result EXCEPT ![t] =
                           IF jobs_df # <<>> THEN Tag(jobs_df, search_term)
                           ELSE jobs_df]
    /\ Finish(t, "returned")
    /\ UNCHANGED <<b_pc, submitted, fate, early, snap, collected, yielded,
                   combined_jobs_df, written>>
    /\ UNCHANGED <<job_titles_to_search, all_jobs, calls, error>>
    /\ UNCHANGED ui_vars

\* Line 11 raises in the worker: the future holds the exception.
TaskRaises(t) ==
    /\ fut[t] = "running"
    /\ fate[t] = "raise"
    /\ Finish(t, "raised")
    /\ UNCHANGED <<b_pc, submitted, fate, result, early, snap, collected, yielded,
                   combined_jobs_df, written>>
    /\ UNCHANGED shared_vars
    /\ UNCHANGED ui_vars

\* Lines 40-41, one pass of the loop: as_completed yields t and main
\* appends its result, or future.result() raises.
Collect(t) ==
    /\ b_pc = "collect"
    /\ t \in Yieldable
    /\ snap' = snap \ {t}
    /\ waiter' = SelectSeq(waiter, LAMBDA x : x # t)
    /\ yielded' = yielded \cup {t}
    /\ IF ResultRaises(t)
       THEN /\ error' = "scrape_jobs"
            /\ b_pc' = "unwind"
            /\ UNCHANGED <<all_jobs, collected>>
       ELSE /\ all_jobs' = IF BatchKeep(result[t])
                           THEN Append(all_jobs, result[t]) ELSE all_jobs
            /\ collected' = Append(collected, [task |-> t, done |-> Finished(t)])
            /\ UNCHANGED <<error, b_pc>>
    /\ UNCHANGED <<submitted, fut, fate, result, completion, early,
                   combined_jobs_df, written>>
    /\ UNCHANGED <<job_titles_to_search, calls, returned>>
    /\ UNCHANGED ui_vars

\* Line 40: as_completed is exhausted, the loop ends.
LoopEnd ==
    /\ b_pc = "collect"
    /\ AllYielded
    /\ b_pc' = "exit"
    /\ UNCHANGED <<submitted, fut, fate, result, completion, early, snap, waiter,
                   collected, yielded, combined_jobs_df, written>>
    /\ UNCHANGED shared_vars
    /\ UNCHANGED ui_vars

\* Line 36, leaving the with block: executor.shutdown(wait=True) joins
\* every worker; then the statement after it runs, or the exception goes on.
Shutdown ==
    /\ b_pc \in {"exit", "unwind"}
    /\ \A t \in Tasks : Finished(t)
    /\ b_pc' = IF b_pc = "exit" THEN "concat" ELSE "crashed"
    /\ UNCHANGED <<submitted, fut, fate, result, completion, early, snap, waiter,
                   collected, yielded, combined_jobs_df, written>>
    /\ UNCHANGED shared_vars
    /\ UNCHANGED ui_vars

\* Line 44.
Concat ==
    /\ b_pc = "concat"
    /\ IF PdConcatRaises(all_jobs)
       THEN /\ error' = "ValueError"
            /\ b_pc' = "crashed"
            /\ UNCHANGED combined_jobs_df
       ELSE /\ combined_jobs_df' = PdConcat(all_jobs)
            /\ b_pc' = "write"
            /\ UNCHANGED error
    /\ UNCHANGED <<submitted, fut, fate, result, completion, early, snap, waiter,
                   collected, yielded, written>>
    /\ UNCHANGED <<job_titles_to_search, all_jobs, calls, returned>>
    /\ UNCHANGED ui_vars

\* Lines 46-49.
ToExcel ==
    /\ b_pc = "write"
    /\ written' = written + 1
    /\ b_pc' = "done"
    /\ UNCHANGED <<submitted, fut, fate, result, completion, early, snap, waiter,
                   collected, yielded, combined_jobs_df>>
    /\ UNCHANGED shared_vars
    /\ UNCHANGED ui_vars

\* ------------------------------------------------------ specifications
UIInit ==
    /\ df_present = FALSE
    /\ session_jobs_df = <<>>
    /\ selected = [term \in Terms |-> KeyAbsent]
    /\ ui_pc = "idle"
    /\ job_titles_str = <<>>
    /\ sites = {}
    /\ i = 1
    /\ run = "none"
    /\ warning = ""
    /\ buttons = {}
    /\ panes = <<>>
    /\ job_titles_to_search = <<>>
    /\ all_jobs = <<>>
    /\ calls = 0
    /\ returned = <<>>
    /\ error = ""
    /\ b_pc = "off"
    /\ submitted = 0
    /\ fut = [t \in Tasks |-> "none"]
    /\ fate = [t \in Tasks |-> "return"]
    /\ result = [t \in Tasks |-> <<>>]
    /\ completion = <<>>
    /\ early = {}
    /\ snap = {}
    /\ waiter = <<>>
    /\ collected = <<>>
    /\ yielded = {}
    /\ combined_jobs_df = <<>>
    /\ written = 0

BatchInit ==
    /\ df_present = FALSE
    /\ session_jobs_df = <<>>
    /\ selected = [term \in Terms |-> KeyAbsent]
    /\ ui_pc = "off"
    /\ job_titles_str = <<>>
    /\ sites = {"indeed", "linkedin", "google"}
    /\ i = 1
    /\ run = "none"
    /\ warning = ""
    /\ buttons = {}
    /\ panes = <<>>
    /\ job_titles_to_search = BatchTitles
    /\ all_jobs = <<>>
    /\ calls = 0
    /\ returned = [t \in Tasks |-> <<>>]
    /\ error = ""
    /\ b_pc = "submit"
    /\ submitted = 0
    /\ fut = [t \in Tasks |-> "none"]
    /\ fate \in [Tasks -> {"return", "raise", "hang"}]
    /\ result = [t \in Tasks |-> <<>>]
    /\ completion = <<>>
    /\ early = {}
    /\ snap = {}
    /\ waiter = <<>>
    /\ collected = <<>>
    /\ yielded = {}
    /\ combined_jobs_df = <<>>
    /\ written = 0

Init == UIInit \/ BatchInit

UINext ==
    \/ \E text \in JobTitleTexts, ss \in SUBSET SiteOptions : PressSearch(text, ss)
    \/ \E len \in 0..MaxRows : ScrapeReturns(len)
    \/ ScrapeRaises
    \/ Compile
    \/ \E click \in {NoClick} \cup buttons : View(click)
    \/ EndRun

BatchNext ==
    \/ Submit
    \/ AsCompleted
    \/ \E t \in Tasks : TaskStart(t)
    \/ \E t \in Tasks, len \in 0..MaxRows : TaskReturns(t, len)
    \/ \E t \in Tasks : TaskRaises(t)
    \/ \E t \in Tasks : Collect(t)
    \/ LoopEnd
    \/ Shutdown
    \/ Concat
    \/ ToExcel

Next == UINext \/ BatchNext

Spec == Init /\ [][Next]_vars

\* Fairness of the batch script: the operating system schedules the main
\* thread and every worker thread, and a call fated to return does return.
MainStep == Submit \/ AsCompleted \/ (\E t \in Tasks : Collect(t)) \/ LoopEnd
            \/ Shutdown \/ Concat \/ ToExcel

WorkerStep(t) ==
    TaskStart(t) \/ (\E len \in 0..MaxRows : TaskReturns(t, len)) \/ TaskRaises(t)

FairSpec ==
    /\ BatchInit
    /\ [][BatchNext]_vars
    /\ WF_vars(MainStep)
    /\ \A t \in Tasks : WF_vars(WorkerStep(t))

\* ------------------------------------------------------------- claims
\* The interactive run passed the guards and got past line 160.
UIDone == ui_pc = "end" /\ run = "done"

\* The batch script got past line 44.
BatchCombined == b_pc \in {"write", "done"}

\* The rows of table that call k returned.
RowsFrom(table, k) == {x \in DOMAIN table : table[x].origin = k}

\* Every row the calls returned is in table once, and nothing else is.
HoldsEachRowOnce(table, rets) ==
    /\ Len(table) = SumLen(rets)
    /\ \A k \in DOMAIN rets : \A n \in 1..Len(rets[k]) :
          Cardinality({x \in RowsFrom(table, k) : table[x].n = n}) = 1

\* C1: a run that completes has made one call per title, and its result
\* table has as many rows as the calls returned together, each returned row
\* once: none dropped, none twice.
C1_RowCountIsSum ==
    /\ UIDone =>
          /\ Len(returned) = Len(job_titles_to_search)
          /\ HoldsEachRowOnce(session_jobs_df, returned)
    /\ BatchCombined =>
          /\ calls = Len(job_titles_to_search)
          /\ HoldsEachRowOnce(combined_jobs_df, returned)

C1_Witness ==
    /\ UIDone
    /\ Len(job_titles_to_search) = 2
    /\ Len(returned[1]) = 1
    /\ Len(returned[2]) = 2
    /\ Len(session_jobs_df) = 3

\* The text holds no title: every line of it is blank.
NoTitleIn(text) == \A l \in Range(split(text, <<>>)) : strip(l) = <<>>

\* C2: in a script run started by the search button with no title in the
\* text area or no site ticked, scrape_jobs is never called, the loop is
\* never entered, and one of the two warnings is shown.
C2_GuardsBlockDispatch ==
    (run \in {"blocked", "searching", "done", "aborted"}
       /\ (NoTitleIn(job_titles_str) \/ sites = {}))
    => /\ run = "blocked"
       /\ ui_pc = "end"
       /\ calls = 0
       /\ returned = <<>>
       /\ warning = IF NoTitleIn(job_titles_str)
                    THEN "Please enter at least one job title."
                    ELSE "Please select at least one job site."

C2_Witness ==
    /\ run = "blocked"
    /\ job_titles_str # <<>>
    /\ NoTitleIn(job_titles_str)
    /\ sites # {}
    /\ warning = "Please enter at least one job title."

\* C3: a call that returns an empty table leaves no row in the aggregate
\* and raises nothing: the only exception of a search is the one the
\* service raises, pd.concat never raises, and a run whose calls all return
\* empty tables ends with an empty result (interactive: the "No jobs found"
\* warning; batch: an empty spreadsheet is written).
C3_EmptyResultIsSkipped ==
    /\ error # "ValueError"
    /\ b_pc = "crashed" => \E t \in Tasks : fut[t] = "raised"
    /\ UIDone =>
          /\ \A k \in DOMAIN returned :
                returned[k] = <<>> => RowsFrom(session_jobs_df, k) = {}
          /\ SumLen(returned) = 0 =>
                /\ session_jobs_df = <<>>
                /\ warning = "No jobs found for the given criteria."
                /\ error = ""
    /\ (b_pc \in {"exit", "concat", "write", "done"}) => error = ""
    /\ BatchCombined =>
          \A t \in Tasks :
             returned[t] = <<>> => RowsFrom(combined_jobs_df, t) = {}

C3_Witness ==
    /\ b_pc = "done"
    /\ written = 1
    /\ \A t \in Tasks : fut[t] = "returned" /\ returned[t] = <<>>
    /\ combined_jobs_df = <<>>

\* Every row of table carries the title its call was made for.
TaggedByOrigin(table) ==
    \A x \in DOMAIN table :
       /\ table[x].origin \in DOMAIN job_titles_to_search
       /\ table[x].search_term = job_titles_to_search[table[x].origin]

\* C4: every row collected or stored during a run carries, as search_term,
\* the title of the call that returned it.
C4_SearchTermIsOrigin ==
    /\ \A f \in DOMAIN all_jobs : TaggedByOrigin(all_jobs[f])
    /\ ui_pc \in {"loop", "end"} /\ run \in {"searching", "done", "aborted"}
          => TaggedByOrigin(session_jobs_df)
    /\ b_pc # "off" =>
          /\ \A t \in Tasks : TaggedByOrigin(result[t])
          /\ TaggedByOrigin(combined_jobs_df)

C4_Witness ==
    /\ b_pc = "done"
    /\ Len(collected) = 3
    /\ collected[1].task = 3
    /\ collected[2].task = 1
    /\ \A t \in Tasks : returned[t] # <<>>

\* C5: once the service has raised for a title, nothing partial comes out:
\* the batch script never concatenates or writes the spreadsheet, and the
\* interactive run ends with an empty session table and no results view.
C5_AbortLeavesNoOutput ==
    /\ (\E t \in Tasks : fut[t] = "raised") =>
          /\ written = 0
          /\ b_pc \notin {"concat", "write", "done"}
    /\ b_pc = "crashed" => written = 0 /\ combined_jobs_df = <<>>
    /\ (ui_pc = "end" /\ run = "aborted") =>
          /\ session_jobs_df = <<>>
          /\ buttons = {}

C5_Witness ==
    /\ b_pc = "crashed"
    /\ error = "scrape_jobs"
    /\ written = 0
    /\ \E t \in Tasks : fut[t] = "returned" /\ result[t] # <<>>
    /\ all_jobs # <<>>

\* The tasks main has appended, in order.
CollectedTasks == [x \in DOMAIN collected |-> collected[x].task]

\* C6: all_jobs of the batch script holds exactly the results main has
\* appended: each was appended when its task had finished, no task twice,
\* and when the loop is over every task once.
C6_AppendAfterCompletion ==
    b_pc # "off" =>
       /\ \A x \in DOMAIN collected :
             collected[x].done /\ Finished(collected[x].task)
       /\ \A x, y \in DOMAIN collected :
             collected[x].task = collected[y].task => x = y
       /\ all_jobs = [x \in DOMAIN collected |-> result[collected[x].task]]
       /\ b_pc \in {"exit", "concat", "write", "done"} =>
             Range(CollectedTasks) = Tasks

C6_Witness ==
    /\ b_pc = "exit"
    /\ CollectedTasks = <<2, 3, 1>>
    /\ completion = <<2, 3, 1>>

\* The tables the calls returned, tagged, joined in the given order of calls.
Blocks(order) ==
    Flatten([x \in DOMAIN order |->
                Tag(returned[order[x]], job_titles_to_search[order[x]])])

\* The order of the title list.
DispatchOrder == [k \in DOMAIN job_titles_to_search |-> k]

Late(t) == t \notin early

\* C7 as claimed: the blocks of the result table are in the order of the
\* title list (interactive) and in the order the tasks finished (batch).
C7_BlocksInCompletionOrder ==
    /\ UIDone => session_jobs_df = Blocks(DispatchOrder)
    /\ BatchCombined => combined_jobs_df = Blocks(completion)

\* C7 as amended: interactive, the blocks are in the order of the title
\* list; batch, they are in the order as_completed yielded the tasks: those
\* finished before the loop started first, in no particular order, then the
\* others in the order they finished.  The rows of one call are contiguous
\* and in the order the service returned them.
C7_BlocksInYieldOrder ==
    /\ UIDone => session_jobs_df = Blocks(DispatchOrder)
    /\ BatchCombined =>
          /\ combined_jobs_df = Blocks(CollectedTasks)
          /\ \A x, y \in DOMAIN collected :
                (x < y /\ ~Late(collected[x].task)) \/ x >= y
                   \/ Late(collected[y].task)
          /\ SelectSeq(CollectedTasks, Late) = SelectSeq(completion, Late)

C7_Witness ==
    /\ b_pc = "done"
    /\ completion = <<1, 2, 3>>
    /\ CollectedTasks = <<2, 1, 3>>
    /\ early = {1, 2}
    /\ \A t \in Tasks : Len(returned[t]) = 2

\* C8: the batch script concatenates and writes only when every task has
\* returned and been collected; it writes at most once; with one call that
\* never returns it never writes; when every call returns it writes.
C8_WriteAfterAllComplete ==
    /\ [](b_pc \in {"concat", "write", "done"} =>
             /\ \A t \in Tasks : fut[t] = "returned"
             /\ Len(collected) = Len(job_titles_to_search))
    /\ [](written <= 1 /\ (written = 1 <=> b_pc = "done"))
    /\ []((\E t \in Tasks : fate[t] = "hang") => written = 0)
    /\ ((\A t \in Tasks : fate[t] = "return") ~> written = 1)

C8_Witness ==
    /\ b_pc = "done"
    /\ written = 1
    /\ early = {}
    /\ completion = <<3, 2, 1>>

\* C9: from line 125 to the end of a run that passed the guards, the session
\* table holds only rows the calls of this run returned, and it is empty
\* when they returned none.
C9_TableRebuiltEachRun ==
    (ui_pc \in {"loop", "end"} /\ run \in {"searching", "done", "aborted"}) =>
       /\ df_present
       /\ \A x \in DOMAIN session_jobs_df :
             /\ session_jobs_df[x].origin \in DOMAIN returned
             /\ session_jobs_df[x].n \in 1..Len(returned[session_jobs_df[x].origin])
       /\ SumLen(returned) = 0 => session_jobs_df = <<>>

\* An earlier run had shown rows for "A" (one was selected); this run found
\* nothing.
C9_Witness ==
    /\ UIDone
    /\ selected[<<"A">>] >= 0
    /\ Len(job_titles_to_search) = 2
    /\ session_jobs_df = <<>>

\* C10: every detail pane rendered looks up a row position that is in range
\* for the rows the session holds for its term.
C10_SelectedIndexInRange ==
    \A x \in DOMAIN panes :
       \/ panes[x].index = NoneIndex
       \/ (0 <= panes[x].index /\ panes[x].index < panes[x].rows)

====
